---- MODULE Spec2Model ----
(***************************************************************************)
(* A model of xlsxcutter.py: the cell reference resolver, the range        *)
(* slicer, the row chunker, the name sanitiser and the two orchestrators   *)
(* (split_excel, build_xlsx).                                              *)
(*                                                                         *)
(* Python strings are modelled as sequences of one-character strings, a    *)
(* DataFrame as a record [columns, rows]: the column labels and the        *)
(* sequence of rows, each row a sequence of cells.                         *)
(***************************************************************************)
EXTENDS Integers, Sequences, FiniteSets, TLC

VARIABLES
    op,              \* which operation this behaviour exercises
    pc,              \* position inside the operation
    cell_ref,        \* cell_to_indices: the argument
    name,            \* sanitise_sheet_name: the argument
    df,              \* the table being sliced or chunked
    start_cell,      \* prepare_table_slice: the top-left cell
    end_cell,        \* prepare_table_slice: the bottom-right cell, or None
    rows_per_chunk,  \* chunk_dataframe: the chunk size
    gen,             \* the generator object chunk_dataframe returned
    yielded,         \* the chunks the generator has yielded so far
    result,          \* the value returned (or the error raised) by the operation
    sheet_name,      \* split_excel: sheet_var
    rows_var,        \* split_excel: rows_var; build_xlsx: rows_per_sheet_var
    selected_formats,\* split_excel: the formats whose checkbox is set
    raw_df,          \* split_excel: the sheet as read, no header
    idx,             \* the 1-based position enumerate() gave the current chunk
    fmt,             \* split_excel: which of the four writes comes next
    chunks_written,  \* split_excel: chunks_written; build_xlsx: sheet_count
    files,           \* split_excel: the files written; build_xlsx: the sheets
    dialog           \* the message box shown to the user

pureVars == <<cell_ref, name, df, start_cell, end_cell, rows_per_chunk, gen, yielded>>

appVars == <<sheet_name, rows_var, selected_formats, raw_df, idx, fmt,
             chunks_written, files, dialog>>

vars == <<op, pc, cell_ref, name, df, start_cell, end_cell,
          rows_per_chunk, gen, yielded, result,
          sheet_name, rows_var, selected_formats, raw_df, idx, fmt,
          chunks_written, files, dialog>>

----------------------------------------------------------------------------
(* Characters and the str methods the program uses.                        *)

UpperChars == <<"A","B","C","D","E","F","G","H","I","J","K","L","M",
                "N","O","P","Q","R","S","T","U","V","W","X","Y","Z">>
LowerChars == <<"a","b","c","d","e","f","g","h","i","j","k","l","m",
                "n","o","p","q","r","s","t","u","v","w","x","y","z">>
DigitChars == <<"0","1","2","3","4","5","6","7","8","9">>

Range(s) == {s[i] : i \in DOMAIN s}

IndexOf(ch, s) == CHOOSE i \in DOMAIN s : s[i] = ch

Whitespace == {" ", "\t", "\n"}

IsUpper(ch) == ch \in Range(UpperChars)
IsLower(ch) == ch \in Range(LowerChars)
IsAlpha(ch) == IsUpper(ch) \/ IsLower(ch)
IsDigit(ch) == ch \in Range(DigitChars)
IsAlnum(ch) == IsAlpha(ch) \/ IsDigit(ch)

\* ord(ch) - ord("A") + 1 for an upper-case letter
LetterValue(ch) == IndexOf(ch, UpperChars)

\* int(ch) for one decimal digit
DigitValue(ch) == IndexOf(ch, DigitChars) - 1

UpperChar(ch) == IF IsLower(ch) THEN UpperChars[IndexOf(ch, LowerChars)] ELSE ch

\* str.upper()
Upper(s) == [i \in DOMAIN s |-> UpperChar(s[i])]

RECURSIVE LStrip(_, _)
LStrip(s, chars) ==
    IF s # <<>> /\ Head(s) \in chars THEN LStrip(Tail(s), chars) ELSE s

RECURSIVE RStrip(_, _)
RStrip(s, chars) ==
    IF s # <<>> /\ s[Len(s)] \in chars
    THEN RStrip(SubSeq(s, 1, Len(s) - 1), chars)
    ELSE s

\* str.strip(chars); str.strip() is StripChars(s, Whitespace)
StripChars(s, chars) == RStrip(LStrip(s, chars), chars)

Strip(s) == StripChars(s, Whitespace)

\* int(s) for a string of decimal digits
RECURSIVE ParseInt(_)
ParseInt(s) ==
    IF s = <<>> THEN 0
    ELSE 10 * ParseInt(SubSeq(s, 1, Len(s) - 1)) + DigitValue(s[Len(s)])

\* str(n) for n >= 0
RECURSIVE IntToStr(_)
IntToStr(n) ==
    IF n < 10 THEN <<DigitChars[n + 1]>>
    ELSE Append(IntToStr(n \div 10), DigitChars[(n % 10) + 1])

----------------------------------------------------------------------------
(* cell_to_indices                                                         *)

MsgCellShape == "Cell references must be like A1 or BC12."
MsgRowZero   == "Row number must be greater than zero."
MsgColAlpha  == "Column part must contain only letters."
MsgColZero   == "Column must be greater than zero."

Raise(msg) == [ok |-> FALSE, error |-> msg]

\* CELL_REF_RE.match(s): the length of group 1 when s is letters then digits,
\* 0 when there is no match
CellRefMatch(s) ==
    LET splits == {k \in 1..(Len(s) - 1) :
                      /\ \A i \in 1..k : IsAlpha(s[i])
                      /\ \A i \in (k + 1)..Len(s) : IsDigit(s[i])}
    IN IF splits = {} THEN 0 ELSE CHOOSE k \in splits : TRUE

\* the loop of cell_to_indices over col_part.upper(), col_idx starting at acc
RECURSIVE ColumnLoopOff(_, _)
ColumnLoopOff(chars, acc) ==
    IF chars = <<>> THEN [ok |-> TRUE, col_idx |-> acc]
    ELSE IF ~IsAlpha(Head(chars)) THEN Raise(MsgColAlpha)
    ELSE ColumnLoopOff(Tail(chars), acc * 26 + (LetterValue(Head(chars)) - 1))

RECURSIVE ColumnLoop(_, _)
ColumnLoop(chars, acc) ==
    IF chars = <<>> THEN [ok |-> TRUE, col_idx |-> acc]
    ELSE IF ~IsAlpha(Head(chars)) THEN Raise(MsgColAlpha)
    ELSE ColumnLoop(Tail(chars), acc * 26 + LetterValue(Head(chars)))

cell_to_indices(ref) ==
    LET s == Strip(ref)
        k == CellRefMatch(s)
    IN IF k = 0 THEN Raise(MsgCellShape)
       ELSE LET col_part == SubSeq(s, 1, k)
                row_part == SubSeq(s, k + 1, Len(s))
                row_idx  == ParseInt(row_part) - 1
                loop     == ColumnLoop(Upper(col_part), 0)
            IN IF row_idx < 0 THEN Raise(MsgRowZero)
               ELSE IF ~loop.ok THEN loop
               ELSE IF loop.col_idx - 1 < 0 THEN Raise(MsgColZero)
               ELSE [ok |-> TRUE, row |-> row_idx, col |-> loop.col_idx - 1]

----------------------------------------------------------------------------
(* sanitise_sheet_name                                                     *)

SanitiseChar(c) == IF IsAlnum(c) \/ c \in {"-", "_"} THEN c ELSE "_"

SheetFallbackKeep(candidate) == candidate

SheetFallback(candidate) ==
    IF candidate = <<>> THEN <<"s","h","e","e","t">> ELSE candidate

sanitise_sheet_name(n) ==
    LET stripped  == Strip(n)
        cleaned   == [i \in DOMAIN stripped |-> SanitiseChar(stripped[i])]
        candidate == StripChars(cleaned, {"_"})
    IN SheetFallback(candidate)

----------------------------------------------------------------------------
(* DataFrames.  A cell is text or NaN (an empty cell); a frame holds its   *)
(* column labels and its rows.  A frame of which only the shape is kept    *)
(* ([columns, nrows]) stands for a table too large to enumerate.           *)

Text(s) == [kind |-> "text", text |-> s]
NaN == [kind |-> "nan", text |-> <<>>]

Min(a, b) == IF a <= b THEN a ELSE b
Max(a, b) == IF a >= b THEN a ELSE b

\* pd.DataFrame()
EmptyFrame == [columns |-> <<>>, rows |-> <<>>]

IsShapeFrame(f) == "nrows" \in DOMAIN f

\* len(df), df.shape[0]
NRows(f) == IF IsShapeFrame(f) THEN f.nrows ELSE Len(f.rows)

\* df.shape[1]
NCols(f) == Len(f.columns)

\* df.empty: any axis of length 0
FrameEmpty(f) == NRows(f) = 0 \/ NCols(f) = 0

\* df.iloc[lo:hi] for 0 <= lo, 0 <= hi (a slice is clipped to the frame)
ILocRows(f, lo, hi) ==
    LET h == Min(hi, NRows(f))
    IN IF IsShapeFrame(f)
       THEN [columns |-> f.columns, nrows |-> Max(h - lo, 0)]
       ELSE [columns |-> f.columns, rows |-> SubSeq(f.rows, lo + 1, h)]

----------------------------------------------------------------------------
(* chunk_dataframe, a generator: nothing of its body runs before the first *)
(* next(); each next() runs it to the next yield, raise or return.         *)

MsgChunkSize == "Rows per chunk must be greater than zero."

InvalidChunkSizeNegativeOnly(k) == k < 0

InvalidChunkSize(k) == k <= 0

NextStartSkipping(start, k) == start + k + 1

\* the next value of range(0, total_rows, rows_per_chunk) after start
NextStart(start, k) == start + k

GenCreated == [at |-> "created", start |-> 0]
GenClosed == [at |-> "closed", start |-> 0]

\* one next() on the generator g of chunk_dataframe(f, k)
GenNext(g, f, k) ==
    LET total_rows == NRows(f)
        yieldAt(start) ==
            [gen |-> [at |-> "loop", start |-> start],
             kind |-> "yield",
             value |-> ILocRows(f, start, Min(start + k, total_rows))]
        stop == [gen |-> GenClosed, kind |-> "stop", value |-> NaN]
    IN CASE g.at = "created" ->
              IF InvalidChunkSize(k)
              THEN [gen |-> GenClosed, kind |-> "raise", value |-> MsgChunkSize]
              ELSE IF FrameEmpty(f)
              THEN [gen |-> [at |-> "yielded_df", start |-> 0],
                    kind |-> "yield", value |-> f]
              ELSE IF 0 < total_rows THEN yieldAt(0) ELSE stop
         [] g.at = "yielded_df" -> stop
         [] g.at = "loop" ->
              IF NextStart(g.start, k) < total_rows
              THEN yieldAt(NextStart(g.start, k))
              ELSE stop
         [] OTHER -> stop

----------------------------------------------------------------------------
(* prepare_table_slice                                                     *)

MsgEndBeforeStart == "End cell must be below and to the right of the start cell."
MsgOutside == "Start cell lies outside the populated area of the sheet."

\* Python's None where a string is expected
None == <<"<None>">>

\* truth value of an optional string
Truthy(s) == s # None /\ s # <<>>

\* df.iloc[r0:r1, c0:c1], the rows renumbered from 0
ILoc(f, r0, r1, c0, c1) ==
    LET rhi == Min(r1, NRows(f))
        chi == Min(c1, NCols(f))
    IN [columns |-> SubSeq(f.columns, c0 + 1, chi),
        rows |-> [r \in 1..Max(rhi - r0, 0) |-> SubSeq(f.rows[r0 + r], c0 + 1, chi)]]

\* str(value) of a header cell after fillna("")
CellStr(cell) == IF cell.kind = "nan" THEN <<>> ELSE cell.text

ColumnPrefix == <<"C","o","l","u","m","n"," ">>

HeaderNameZeroBased(cell, i) ==
    LET text == Strip(CellStr(cell))
    IN IF text # <<>> THEN text ELSE ColumnPrefix \o IntToStr(i)

\* text or f"Column {idx + 1}", i the 0-based position idx in the header row
HeaderName(cell, i) ==
    LET text == Strip(CellStr(cell))
    IN IF text # <<>> THEN text ELSE ColumnPrefix \o IntToStr(i + 1)

DuplicatedNever(columns) == [i \in DOMAIN columns |-> FALSE]

\* data.columns.duplicated(): TRUE where an earlier column has the same name
Duplicated(columns) ==
    [i \in DOMAIN columns |-> \E j \in 1..(i - 1) : columns[j] = columns[i]]

\* seq[mask]: the elements whose mask is TRUE, in order
RECURSIVE Select(_, _)
Select(seq, mask) ==
    IF seq = <<>> THEN <<>>
    ELSE (IF Head(mask) THEN <<Head(seq)>> ELSE <<>>) \o Select(Tail(seq), Tail(mask))

\* data.loc[:, ~data.columns.duplicated()] after data.columns = columns
DropDuplicated(columns, rows) ==
    LET keep == [i \in DOMAIN columns |-> ~Duplicated(columns)[i]]
    IN [columns |-> Select(columns, keep),
        rows |-> [r \in DOMAIN rows |-> Select(rows[r], keep)]]

HeaderOnlyIsEmptyNever(subset) == FrameEmpty(subset)

\* subset.empty or len(subset.index) <= 1
HeaderOnlyIsEmpty(subset) == FrameEmpty(subset) \/ NRows(subset) <= 1

EndBeforeStartRowsOnly(start, end) == end.row < start.row

\* end_row < start_row or end_col < start_col
EndBeforeStart(start, end) == end.row < start.row \/ end.col < start.col

StartOutsideRowsOnly(start, f) == start.row >= NRows(f)

\* start_row >= df.shape[0] or start_col >= df.shape[1]
StartOutside(start, f) == start.row >= NRows(f) \/ start.col >= NCols(f)

\* min(end_row, df.shape[0] - 1)
ClampEnd(e, last) == Min(e, last)

DataRowsWithHeader(subset) == subset.rows

\* subset.iloc[1:]
DataRows(subset) == Tail(subset.rows)

prepare_table_slice(f, start_ref, end_ref) ==
    LET start == cell_to_indices(start_ref)
        end == IF Truthy(end_ref)
               THEN cell_to_indices(end_ref)
               ELSE [ok |-> TRUE, row |-> NRows(f) - 1, col |-> NCols(f) - 1]
    IN IF ~start.ok THEN start
       ELSE IF ~end.ok THEN end
       ELSE IF Truthy(end_ref) /\ EndBeforeStart(start, end)
       THEN Raise(MsgEndBeforeStart)
       ELSE IF StartOutside(start, f) THEN Raise(MsgOutside)
       ELSE LET end_row == ClampEnd(end.row, NRows(f) - 1)
                end_col == ClampEnd(end.col, NCols(f) - 1)
                subset == ILoc(f, start.row, end_row + 1, start.col, end_col + 1)
            IN IF HeaderOnlyIsEmpty(subset)
               THEN [ok |-> TRUE, frame |-> EmptyFrame]
               ELSE LET header_row == subset.rows[1]
                        data == DataRows(subset)
                        columns == [i \in DOMAIN header_row |->
                                       HeaderName(header_row[i], i - 1)]
                    IN [ok |-> TRUE, frame |-> DropDuplicated(columns, data)]

----------------------------------------------------------------------------
(* ExcelCutterApp: what split_excel and build_xlsx share.                  *)

MAX_EXCEL_ROWS == 1048576

\* int(text) of a Tk variable: the value, or ValueError
IntOf(text) ==
    LET t == Strip(text)
        signed == t # <<>> /\ Head(t) \in {"-", "+"}
        digits == IF signed THEN Tail(t) ELSE t
    IN IF digits = <<>> \/ \E i \in DOMAIN digits : ~IsDigit(digits[i])
       THEN [ok |-> FALSE, value |-> 0]
       ELSE [ok |-> TRUE,
             value |-> IF signed /\ Head(t) = "-"
                       THEN 0 - ParseInt(digits) ELSE ParseInt(digits)]

ShowError(title, message) ==
    [kind |-> "error", title |-> title, message |-> message, count |-> 0]
ShowInfo(title, count) ==
    [kind |-> "info", title |-> title, message |-> "", count |-> count]

\* the order of the four writes in the body of the loop of split_excel
FormatOrder == <<"xlsx", "csv", "json", "ods">>

\* Path(input_file_var).stem
Stem == <<"b","o","o","k">>

\* f"{idx:03d}"
Pad3(n) ==
    LET d == IntToStr(n)
    IN [i \in 1..(3 - Len(d)) |-> "0"] \o d

\* enumerate(..., start=1): the position given to the (i+1)-th chunk
Enumerate(i) == i + 1

\* f"{file_path.stem}_{safe_sheet}_part{idx:03d}"
BaseName(safe_sheet, i) ==
    Stem \o <<"_">> \o safe_sheet \o <<"_","p","a","r","t">> \o Pad3(i)

\* the file extension each write uses
ExtensionOf(format) ==
    CASE format = "xlsx" -> <<"x","l","s","x">>
      [] format = "csv" -> <<"c","s","v">>
      [] format = "json" -> <<"j","s","o","n">>
      [] format = "ods" -> <<"o","d","s">>

\* output_dir / f"{base_name}.{ext}"
ArtifactPath(base_name, format) == base_name \o <<".">> \o ExtensionOf(format)

SplitTableEmptyNever(f) == FALSE

\* if df.empty: (split_excel, after prepare_table_slice)
SplitTableEmpty(f) == FrameEmpty(f)

ClampRowsPerSheetNever(k) == k

\* rows_per_sheet = min(rows_per_sheet, MAX_EXCEL_ROWS)
ClampRowsPerSheet(k) == Min(k, MAX_EXCEL_ROWS)

\* f"Sheet{idx}"
SheetTitle(i) == <<"S","h","e","e","t">> \o IntToStr(i)

----------------------------------------------------------------------------
(* Inputs                                                                  *)

MaxRefLen == 4
RefChars == {"A", "B", "C", "Z", "b", "0", "1", "2", "5", " ", "$"}

MaxNameLen == 4
NameChars == {"Q", "1", "a", "_", "-", " ", "/", "*"}

StringsOver(chars, maxLen) ==
    UNION {[1..n -> chars] : n \in 0..maxLen}

ExampleNames ==
    {<<"Q","1"," ","R","e","p","o","r","t","/","2","0","2","4">>}

CellRefInputs == StringsOver(RefChars, MaxRefLen)
NameInputs == StringsOver(NameChars, MaxNameLen) \cup ExampleNames

Pending == [pending |-> TRUE]

MaxRows == 4
MaxCols == 2
MaxChunkSize == 3

\* the text of the address of the cell at 1-based (r, c), e.g. B2
RECURSIVE AddressLetters(_)
AddressLetters(n) ==
    IF n <= 0 THEN <<>>
    ELSE Append(AddressLetters((n - 1) \div 26), UpperChars[((n - 1) % 26) + 1])

\* a sheet row by kind: every cell its own address; all cells blank; every
\* cell "x" padded with spaces; "Column 2" in the first cell and blanks after
CellOf(kind, r, c) ==
    CASE kind = "addr" -> Text(AddressLetters(c) \o IntToStr(r))
      [] kind = "blank" -> NaN
      [] kind = "same" -> Text([i \in 1..(c + 1) |-> IF i = 2 THEN "x" ELSE " "])
      [] kind = "gen" ->
            IF c = 1 THEN Text(<<"C","o","l","u","m","n"," ","2">>) ELSE NaN

\* a sheet as pd.read_excel(header=None) gives it: columns labelled 0..n-1
RawFrame(kinds, ncols) ==
    [columns |-> [c \in 1..ncols |-> c - 1],
     rows |-> [r \in 1..Len(kinds) |-> [c \in 1..ncols |-> CellOf(kinds[r], r, c)]]]

FramesOf(rowKinds, maxRows, maxCols) ==
    {RawFrame(kinds, ncols) :
        kinds \in UNION {[1..n -> rowKinds] : n \in 0..maxRows},
        ncols \in 0..maxCols}

ChunkFrames == FramesOf({"addr", "blank"}, MaxRows, MaxCols)
ChunkSizes == {-5, -1} \cup (0..MaxChunkSize)

MaxSheetRows == 3
MaxSheetCols == 2

\* the sheet of the worked example: ID, Name, Amount over four data rows
ExampleSheet ==
    [columns |-> <<0, 1, 2>>,
     rows |-> [r \in 1..5 |->
                  IF r = 1
                  THEN <<Text(<<"I","D">>), Text(<<"N","a","m","e">>),
                         Text(<<"A","m","o","u","n","t">>)>>
                  ELSE [c \in 1..3 |-> CellOf("addr", r, c)]]]

SliceFrames ==
    FramesOf({"addr", "same", "gen"}, MaxSheetRows, MaxSheetCols)
        \cup {ExampleSheet}

\* references of the cells of the sheet and of one row and one column beyond
GridRefs ==
    {AddressLetters(c) \o IntToStr(r) :
        r \in 1..(MaxSheetRows + 1), c \in 1..(MaxSheetCols + 1)}

StartRefs == GridRefs \cup {<<"Z","9","9">>, <<"A","0">>, <<" ","b","2">>}
EndRefs == GridRefs \cup {<<"Z","9","9">>, <<>>, None}

MaxSheets == 3

\* header and five data rows in one column
LedgerSheet == RawFrame([r \in 1..6 |-> "addr"], 1)

\* what pd.read_excel(header=None) can give: no cell at all, or a grid
SplitFrames ==
    {f \in FramesOf({"addr"}, MaxRows, MaxCols) : (NRows(f) = 0) <=> (NCols(f) = 0)}
        \cup {ExampleSheet, LedgerSheet}

SplitSheetNames == ExampleNames \cup {<<"*","*","*">>, <<>>}
SplitRowsVars ==
    {IntToStr(k) : k \in 0..MaxChunkSize} \cup {<<"-","1">>, <<"x">>}
SplitFormats == SUBSET {"xlsx", "csv", "json", "ods"}
SplitStartRefs == {<<"A","1">>, <<"B","2">>, <<"Z","9","9">>, <<>>}
SplitEndRefs == {<<>>, <<"A","1">>, <<"Z","9","9">>}

\* tables of which build_xlsx sees only the shape: a few rows, or about as
\* many as a sheet can hold
BuildRowCounts ==
    (0..MaxSheets) \cup
    {MAX_EXCEL_ROWS - 1, MAX_EXCEL_ROWS, MAX_EXCEL_ROWS + 1,
     2 * MAX_EXCEL_ROWS, 2 * MAX_EXCEL_ROWS + 1}
BuildFrames ==
    {[columns |-> [c \in 1..n |-> c - 1], nrows |-> r] :
        n \in 0..MaxCols, r \in BuildRowCounts}
BuildRowsVars ==
    {IntToStr(k) : k \in (0..MaxChunkSize) \cup
                         {MAX_EXCEL_ROWS - 1, MAX_EXCEL_ROWS, MAX_EXCEL_ROWS + 1,
                          2 * MAX_EXCEL_ROWS}}
        \cup {<<"-","1">>, <<"x">>}

Idle == [idle |-> TRUE]

NoDialog == [kind |-> "none", title |-> "", message |-> "", count |-> 0]

\* the application's state while a module function is exercised on its own
AppIdle ==
    /\ sheet_name = <<>> /\ rows_var = <<>> /\ selected_formats = {}
    /\ raw_df = Idle /\ idx = 0 /\ fmt = 0
    /\ chunks_written = 0 /\ files = <<>> /\ dialog = NoDialog

----------------------------------------------------------------------------
(* The resolver on its own.                                                *)

InitCell ==
    /\ op = "cell_to_indices"
    /\ pc = "call"
    /\ cell_ref \in CellRefInputs
    /\ name = <<>>
    /\ df = Idle /\ start_cell = <<>> /\ end_cell = None
    /\ rows_per_chunk = 0 /\ gen = Idle /\ yielded = <<>>
    /\ result = Pending
    /\ AppIdle

CellToIndices ==
    /\ op = "cell_to_indices" /\ pc = "call"
    /\ result' = cell_to_indices(cell_ref)
    /\ pc' = "done"
    /\ UNCHANGED <<op, pureVars, appVars>>

NextCell == CellToIndices

SpecCell == InitCell /\ [][NextCell]_vars

(* The chunker on its own: a caller that iterates the generator to its end. *)

InitChunk ==
    /\ op = "chunk_dataframe"
    /\ pc = "iterate"
    /\ df \in ChunkFrames
    /\ rows_per_chunk \in ChunkSizes
    /\ gen = GenCreated
    /\ yielded = <<>>
    /\ cell_ref = <<>> /\ name = <<>>
    /\ start_cell = <<>> /\ end_cell = None
    /\ result = Pending
    /\ AppIdle

\* next() gives a chunk
ChunkYield ==
    /\ op = "chunk_dataframe" /\ pc = "iterate"
    /\ LET n == GenNext(gen, df, rows_per_chunk)
       IN /\ n.kind = "yield"
          /\ gen' = n.gen
          /\ yielded' = Append(yielded, n.value)
    /\ UNCHANGED <<op, pc, cell_ref, name, df, start_cell, end_cell,
                   rows_per_chunk, result, appVars>>

\* next() raises ValueError
ChunkRaise ==
    /\ op = "chunk_dataframe" /\ pc = "iterate"
    /\ LET n == GenNext(gen, df, rows_per_chunk)
       IN /\ n.kind = "raise"
          /\ gen' = n.gen
          /\ result' = Raise(n.value)
    /\ pc' = "done"
    /\ UNCHANGED <<op, cell_ref, name, df, start_cell, end_cell,
                   rows_per_chunk, yielded, appVars>>

\* next() raises StopIteration: the generator is exhausted
ChunkStop ==
    /\ op = "chunk_dataframe" /\ pc = "iterate"
    /\ LET n == GenNext(gen, df, rows_per_chunk)
       IN /\ n.kind = "stop"
          /\ gen' = n.gen
          /\ result' = [ok |-> TRUE]
    /\ pc' = "done"
    /\ UNCHANGED <<op, cell_ref, name, df, start_cell, end_cell,
                   rows_per_chunk, yielded, appVars>>

NextChunk == ChunkYield \/ ChunkRaise \/ ChunkStop

SpecChunk == InitChunk /\ [][NextChunk]_vars

(* The slicer on its own.                                                  *)

InitSlice ==
    /\ op = "prepare_table_slice"
    /\ pc = "call"
    /\ df \in SliceFrames
    /\ start_cell \in StartRefs
    /\ end_cell \in EndRefs
    /\ cell_ref = <<>> /\ name = <<>>
    /\ rows_per_chunk = 0 /\ gen = Idle /\ yielded = <<>>
    /\ result = Pending
    /\ AppIdle

PrepareTableSlice ==
    /\ op = "prepare_table_slice" /\ pc = "call"
    /\ result' = prepare_table_slice(df, start_cell, end_cell)
    /\ pc' = "done"
    /\ UNCHANGED <<op, pureVars, appVars>>

NextSlice == PrepareTableSlice

SpecSlice == InitSlice /\ [][NextSlice]_vars

(* The sanitiser on its own.                                               *)

InitSanitise ==
    /\ op = "sanitise_sheet_name"
    /\ pc = "call"
    /\ name \in NameInputs
    /\ cell_ref = <<>>
    /\ df = Idle /\ start_cell = <<>> /\ end_cell = None
    /\ rows_per_chunk = 0 /\ gen = Idle /\ yielded = <<>>
    /\ result = Pending
    /\ AppIdle

SanitiseSheetName ==
    /\ op = "sanitise_sheet_name" /\ pc = "call"
    /\ result' = sanitise_sheet_name(name)
    /\ pc' = "done"
    /\ UNCHANGED <<op, pureVars, appVars>>

NextSanitise == SanitiseSheetName

SpecSanitise == InitSanitise /\ [][NextSanitise]_vars

----------------------------------------------------------------------------
(* split_excel                                                             *)

InitSplit ==
    /\ op = "split_excel"
    /\ pc = "start"
    /\ sheet_name \in SplitSheetNames
    /\ rows_var \in SplitRowsVars
    /\ selected_formats \in SplitFormats
    /\ start_cell \in SplitStartRefs
    /\ end_cell \in SplitEndRefs
    /\ raw_df = Idle /\ df = Idle
    /\ rows_per_chunk = 0 /\ gen = Idle /\ yielded = <<>>
    /\ idx = 0 /\ fmt = 0 /\ chunks_written = 0
    /\ files = <<>> /\ dialog = NoDialog
    /\ cell_ref = <<>> /\ name = <<>>
    /\ result = Pending

\* the checks of the form's fields, in the order of the code; file_exists and
\* dir_ok are what the file system answers
SplitValidate ==
    /\ op = "split_excel" /\ pc = "start"
    /\ \E file_exists \in BOOLEAN, dir_ok \in BOOLEAN :
         LET rows_per_file == IntOf(rows_var)
             shown ==
                 IF ~rows_per_file.ok
                 THEN ShowError("Invalid value", "Rows per file must be a number.")
                 ELSE IF ~file_exists
                 THEN ShowError("Missing file", "Please choose a workbook to split.")
                 ELSE IF sheet_name = <<>>
                 THEN ShowError("Missing sheet", "Please choose a worksheet to split.")
                 ELSE IF rows_per_file.value <= 0
                 THEN ShowError("Invalid rows", "Rows per file must be greater than zero.")
                 ELSE IF ~dir_ok
                 THEN ShowError("Output error", "Cannot create folder")
                 ELSE IF selected_formats = {}
                 THEN ShowInfo("No formats selected", 0)
                 ELSE IF Strip(start_cell) = <<>>
                 THEN ShowError("Missing start",
                                "Please provide the top-left cell for the table.")
                 ELSE NoDialog
         IN /\ dialog' = shown
            /\ pc' = IF shown = NoDialog THEN "deps" ELSE "done"
            /\ rows_per_chunk' = IF rows_per_file.ok THEN rows_per_file.value ELSE 0
            /\ start_cell' = Strip(start_cell)
            /\ end_cell' = Strip(end_cell)
    /\ UNCHANGED <<op, cell_ref, name, df, gen, yielded, result, sheet_name, rows_var,
                   selected_formats, raw_df, idx, fmt, chunks_written, files>>

\* ensure_optional_dependencies: odfpy is there, or gets installed, or not
SplitDependencies ==
    /\ op = "split_excel" /\ pc = "deps"
    /\ \E odf_available \in BOOLEAN :
         IF "ods" \in selected_formats /\ ~odf_available
         THEN /\ dialog' = ShowError("Dependency error",
                                     "Unable to import odfpy even after installation.")
              /\ pc' = "done"
         ELSE /\ pc' = "read"
              /\ UNCHANGED dialog
    /\ UNCHANGED <<op, pureVars, result, sheet_name, rows_var, selected_formats,
                   raw_df, idx, fmt, chunks_written, files>>

\* pd.read_excel(file_path, sheet_name=sheet_name, header=None)
SplitRead ==
    /\ op = "split_excel" /\ pc = "read"
    /\ raw_df' \in SplitFrames
    /\ pc' = "slice"
    /\ UNCHANGED <<op, pureVars, result, sheet_name, rows_var, selected_formats,
                   idx, fmt, chunks_written, files, dialog>>

SplitReadFails ==
    /\ op = "split_excel" /\ pc = "read"
    /\ dialog' = ShowError("Read error", "Unable to read sheet")
    /\ pc' = "done"
    /\ UNCHANGED <<op, pureVars, result, sheet_name, rows_var, selected_formats,
                   raw_df, idx, fmt, chunks_written, files>>

\* prepare_table_slice, the df.empty test, and the set-up of the loop
SplitSlice ==
    /\ op = "split_excel" /\ pc = "slice"
    /\ LET sliced == prepare_table_slice(
                         raw_df, start_cell, IF end_cell = <<>> THEN None ELSE end_cell)
       IN IF ~sliced.ok
          THEN /\ dialog' = ShowError("Invalid range", sliced.error)
               /\ pc' = "done"
               /\ UNCHANGED <<df, gen, chunks_written>>
          ELSE IF SplitTableEmpty(sliced.frame)
          THEN /\ df' = sliced.frame
               /\ dialog' = ShowInfo("Empty table", 0)
               /\ pc' = "done"
               /\ UNCHANGED <<gen, chunks_written>>
          ELSE /\ df' = sliced.frame
               /\ gen' = GenCreated
               /\ chunks_written' = 0
               /\ pc' = "loop"
               /\ UNCHANGED dialog
    /\ UNCHANGED <<op, cell_ref, name, start_cell, end_cell, rows_per_chunk, yielded,
                   result, sheet_name, rows_var, selected_formats, raw_df, idx, fmt,
                   files>>

\* the for statement asks the generator for the next chunk
SplitIterate ==
    /\ op = "split_excel" /\ pc = "loop"
    /\ LET n == GenNext(gen, df, rows_per_chunk)
       IN /\ gen' = n.gen
          /\ CASE n.kind = "yield" ->
                    /\ idx' = Enumerate(Len(yielded))
                    /\ yielded' = Append(yielded, n.value)
                    /\ IF FrameEmpty(n.value)
                       THEN UNCHANGED <<pc, fmt, chunks_written>>
                       ELSE /\ chunks_written' = chunks_written + 1
                            /\ fmt' = 1
                            /\ pc' = "write"
                    /\ UNCHANGED dialog
               [] n.kind = "raise" ->
                    /\ dialog' = ShowError("Split error", n.value)
                    /\ pc' = "done"
                    /\ UNCHANGED <<idx, yielded, fmt, chunks_written>>
               [] n.kind = "stop" ->
                    /\ dialog' = ShowInfo("Split complete", chunks_written)
                    /\ pc' = "done"
                    /\ UNCHANGED <<idx, yielded, fmt, chunks_written>>
    /\ UNCHANGED <<op, cell_ref, name, df, start_cell, end_cell, rows_per_chunk,
                   result, sheet_name, rows_var, selected_formats, raw_df, files>>

\* after one of the four if statements: the next one, or the next chunk
AfterFormat ==
    IF fmt = Len(FormatOrder)
    THEN fmt' = 0 /\ pc' = "loop"
    ELSE fmt' = fmt + 1 /\ UNCHANGED pc

\* chunk.to_excel / to_csv / to_json writes the file
SplitWrite ==
    /\ op = "split_excel" /\ pc = "write"
    /\ FormatOrder[fmt] \in selected_formats
    /\ files' = Append(files,
                       [path |-> ArtifactPath(
                                     BaseName(sanitise_sheet_name(sheet_name), idx),
                                     FormatOrder[fmt]),
                        table |-> yielded[Len(yielded)]])
    /\ AfterFormat
    /\ UNCHANGED <<op, pureVars, result, sheet_name, rows_var, selected_formats,
                   raw_df, idx, chunks_written, dialog>>

AfterEncoderErrorNextChunk == "loop"

\* both except clauses end in return
AfterEncoderError == "done"

\* the encoder raises: ImportError, or any other exception
SplitWriteFails ==
    /\ op = "split_excel" /\ pc = "write"
    /\ FormatOrder[fmt] \in selected_formats
    /\ \E exc \in {"ImportError", "Exception"} :
         dialog' = ShowError(IF exc = "ImportError"
                             THEN "Missing dependency" ELSE "Split error",
                             "encoder")
    /\ pc' = AfterEncoderError
    /\ UNCHANGED <<op, pureVars, result, sheet_name, rows_var, selected_formats,
                   raw_df, idx, fmt, chunks_written, files>>

\* the format is not selected
SplitSkipFormat ==
    /\ op = "split_excel" /\ pc = "write"
    /\ FormatOrder[fmt] \notin selected_formats
    /\ AfterFormat
    /\ UNCHANGED <<op, pureVars, result, sheet_name, rows_var, selected_formats,
                   raw_df, idx, chunks_written, files, dialog>>

NextSplit ==
    \/ SplitValidate
    \/ SplitDependencies
    \/ SplitRead
    \/ SplitReadFails
    \/ SplitSlice
    \/ SplitIterate
    \/ SplitWrite
    \/ SplitWriteFails
    \/ SplitSkipFormat

SpecSplit == InitSplit /\ [][NextSplit]_vars

----------------------------------------------------------------------------
(* build_xlsx                                                              *)

InitBuild ==
    /\ op = "build_xlsx"
    /\ pc = "start"
    /\ rows_var \in BuildRowsVars
    /\ sheet_name = <<>> /\ selected_formats = {}
    /\ start_cell = <<>> /\ end_cell = None
    /\ raw_df = Idle /\ df = Idle
    /\ rows_per_chunk = 0 /\ gen = Idle /\ yielded = <<>>
    /\ idx = 0 /\ fmt = 0 /\ chunks_written = 0
    /\ files = <<>> /\ dialog = NoDialog
    /\ cell_ref = <<>> /\ name = <<>>
    /\ result = Pending

\* the checks of the form's fields and the clamp of rows_per_sheet
BuildValidate ==
    /\ op = "build_xlsx" /\ pc = "start"
    /\ \E table_exists \in BOOLEAN, dir_ok \in BOOLEAN :
         LET rows_per_sheet == IntOf(rows_var)
             shown ==
                 IF ~rows_per_sheet.ok
                 THEN ShowError("Invalid value", "Rows per sheet must be a number.")
                 ELSE IF ~table_exists
                 THEN ShowError("Missing table", "Please choose a CSV or JSON file.")
                 ELSE IF rows_per_sheet.value <= 0
                 THEN ShowError("Invalid rows", "Rows per sheet must be greater than zero.")
                 ELSE IF ~dir_ok
                 THEN ShowError("Output error", "Cannot create folder")
                 ELSE NoDialog
         IN /\ dialog' = shown
            /\ pc' = IF shown = NoDialog THEN "read" ELSE "done"
            /\ rows_per_chunk' =
                  IF rows_per_sheet.ok /\ table_exists /\ rows_per_sheet.value > 0
                  THEN ClampRowsPerSheet(rows_per_sheet.value) ELSE 0
    /\ UNCHANGED <<op, cell_ref, name, df, start_cell, end_cell, gen, yielded, result,
                   sheet_name, rows_var, selected_formats, raw_df, idx, fmt,
                   chunks_written, files>>

\* pd.read_csv / pd.read_json gives a table, then the df.empty test; the
\* tables are those that make at most MaxSheets + 1 sheets
BuildRead ==
    /\ op = "build_xlsx" /\ pc = "read"
    /\ \E f \in BuildFrames :
         /\ NRows(f) <= (MaxSheets + 1) * rows_per_chunk
         /\ df' = f
         /\ IF FrameEmpty(f)
            THEN /\ dialog' = ShowInfo("Empty table", 0)
                 /\ pc' = "done"
                 /\ UNCHANGED <<gen, chunks_written>>
            ELSE /\ gen' = GenCreated
                 /\ chunks_written' = 0
                 /\ pc' = "loop"
                 /\ UNCHANGED dialog
    /\ UNCHANGED <<op, cell_ref, name, start_cell, end_cell, rows_per_chunk, yielded,
                   result, sheet_name, rows_var, selected_formats, raw_df, idx, fmt,
                   files>>

\* the suffix is neither .csv nor .json, or the reader raises
BuildReadFails ==
    /\ op = "build_xlsx" /\ pc = "read"
    /\ \E title \in {"Unsupported format", "Read error"} :
         dialog' = ShowError(title, "Unable to read table")
    /\ pc' = "done"
    /\ UNCHANGED <<op, pureVars, result, sheet_name, rows_var, selected_formats,
                   raw_df, idx, fmt, chunks_written, files>>

\* the for statement asks the generator for the next chunk
BuildIterate ==
    /\ op = "build_xlsx" /\ pc = "loop"
    /\ LET n == GenNext(gen, df, rows_per_chunk)
       IN /\ gen' = n.gen
          /\ CASE n.kind = "yield" ->
                    /\ idx' = Enumerate(Len(yielded))
                    /\ yielded' = Append(yielded, n.value)
                    /\ pc' = IF FrameEmpty(n.value) THEN "loop" ELSE "write"
                    /\ UNCHANGED dialog
               [] n.kind = "raise" ->
                    /\ dialog' = ShowError("Write error", n.value)
                    /\ pc' = "done"
                    /\ UNCHANGED <<idx, yielded>>
               [] n.kind = "stop" ->
                    /\ dialog' = ShowInfo("Build complete", chunks_written)
                    /\ pc' = "done"
                    /\ UNCHANGED <<idx, yielded>>
    /\ UNCHANGED <<op, cell_ref, name, df, start_cell, end_cell, rows_per_chunk,
                   result, sheet_name, rows_var, selected_formats, raw_df, fmt,
                   chunks_written, files>>

\* chunk.to_excel(writer, sheet_name=f"Sheet{idx}", index=False)
BuildWriteSheet ==
    /\ op = "build_xlsx" /\ pc = "write"
    /\ files' = Append(files, [path |-> SheetTitle(idx), table |-> yielded[Len(yielded)]])
    /\ chunks_written' = chunks_written + 1
    /\ pc' = "loop"
    /\ UNCHANGED <<op, pureVars, result, sheet_name, rows_var, selected_formats,
                   raw_df, idx, fmt, dialog>>

BuildWriteFails ==
    /\ op = "build_xlsx" /\ pc = "write"
    /\ dialog' = ShowError("Write error", "Unable to write workbook")
    /\ pc' = "done"
    /\ UNCHANGED <<op, pureVars, result, sheet_name, rows_var, selected_formats,
                   raw_df, idx, fmt, chunks_written, files>>

NextBuild ==
    \/ BuildValidate
    \/ BuildRead
    \/ BuildReadFails
    \/ BuildIterate
    \/ BuildWriteSheet
    \/ BuildWriteFails

SpecBuild == InitBuild /\ [][NextBuild]_vars

----------------------------------------------------------------------------
(* Properties of the chunker.                                              *)

CeilDiv(a, b) == (a + b - 1) \div b

RECURSIVE ConcatRows(_)
ConcatRows(chunks) ==
    IF chunks = <<>> THEN <<>>
    ELSE Head(chunks).rows \o ConcatRows(Tail(chunks))

ChunkerDone == op = "chunk_dataframe" /\ pc = "done"

\* C1: a table of R >= 1 rows with K >= 1 is cut into ceil(R/K) chunks, the
\* i-th (0-based) holding rows [i*K, min((i+1)*K, R)) in order: all but the
\* last have K rows, none is empty, and together they are the R rows again.
C1_ChunksAsStated ==
    (ChunkerDone /\ NRows(df) >= 1 /\ rows_per_chunk >= 1) =>
        LET R == NRows(df)
            K == rows_per_chunk
        IN /\ result = [ok |-> TRUE]
           /\ Len(yielded) = CeilDiv(R, K)
           /\ \A i \in DOMAIN yielded :
                 /\ yielded[i].rows = SubSeq(df.rows, (i - 1) * K + 1, Min(i * K, R))
                 /\ yielded[i].columns = df.columns
                 /\ NRows(yielded[i]) >= 1
                 /\ (i < Len(yielded) => NRows(yielded[i]) = K)
           /\ ConcatRows(yielded) = df.rows

\* C2: with K <= 0 the first next() raises "Rows per chunk must be greater
\* than zero." and no chunk is ever yielded, for an empty table too.
C2_InvalidChunkSize ==
    (op = "chunk_dataframe" /\ rows_per_chunk <= 0) =>
        /\ yielded = <<>>
        /\ (pc = "iterate" => GenNext(gen, df, rows_per_chunk).kind = "raise")
        /\ (pc = "done" => result = Raise(MsgChunkSize))

C2_Witness ==
    /\ ChunkerDone
    /\ rows_per_chunk = 0
    /\ FrameEmpty(df)
    /\ result = Raise(MsgChunkSize)
    /\ yielded = <<>>

----------------------------------------------------------------------------
(* Properties of the slicer.                                               *)

SliceDone == op = "prepare_table_slice" /\ pc = "done"

RefA1 == <<"A","1">>
RefB1 == <<"B","1">>
RefZ99 == <<"Z","9","9">>

EndOmitted == ~Truthy(end_cell)

\* the start cell is a valid reference inside the sheet
StartInside ==
    LET start == cell_to_indices(start_cell)
    IN start.ok /\ start.row < NRows(df) /\ start.col < NCols(df)

\* the end cell as the slicer resolves it (before clamping); for a given end
\* cell only when it is a valid reference not above or left of the start
EndResolved ==
    IF EndOmitted THEN [ok |-> TRUE, row |-> NRows(df) - 1, col |-> NCols(df) - 1]
    ELSE LET e == cell_to_indices(end_cell)
             start == cell_to_indices(start_cell)
         IN IF e.ok /\ start.ok /\ e.row >= start.row /\ e.col >= start.col
            THEN e ELSE Raise(MsgCellShape)

LastRow == Min(EndResolved.row, NRows(df) - 1)
LastCol == Min(EndResolved.col, NCols(df) - 1)
FirstRow == cell_to_indices(start_cell).row
FirstCol == cell_to_indices(start_cell).col

\* the cell of the sheet at 0-based (r, c)
CellAt(r, c) == df.rows[r + 1][c + 1]

\* 0-based sheet columns of the rectangle, in order
RectCols == [i \in 1..(LastCol - FirstCol + 1) |-> FirstCol + i - 1]

\* the name the slicer gives the sheet column c of the rectangle
NameOfCol(c) == HeaderName(CellAt(FirstRow, c), c - FirstCol)

\* the rectangle's columns whose name no earlier column of it has
KeptCols ==
    Select(RectCols,
           [i \in DOMAIN RectCols |->
               \A j \in 1..(i - 1) : NameOfCol(RectCols[j]) # NameOfCol(RectCols[i])])

\* rows FirstRow+1 .. LastRow of the sheet restricted to the columns cols
RowsOver(cols) ==
    [r \in 1..(LastRow - FirstRow) |->
        [i \in DOMAIN cols |-> CellAt(FirstRow + r, cols[i])]]

AtLeastTwoRows == StartInside /\ EndResolved.ok /\ LastRow >= FirstRow + 1

\* C4: a valid start cell at or beyond the sheet's row or column count, with
\* the end cell omitted, raises "Start cell lies outside the populated area".
C4_StartOutOfBounds ==
    (SliceDone /\ EndOmitted /\ cell_to_indices(start_cell).ok
       /\ (cell_to_indices(start_cell).row >= NRows(df)
             \/ cell_to_indices(start_cell).col >= NCols(df)))
        => result = Raise(MsgOutside)

C4_Witness ==
    /\ SliceDone
    /\ df = ExampleSheet
    /\ start_cell = RefZ99
    /\ end_cell = None
    /\ result = Raise(MsgOutside)

\* C5 as stated: the data rows are the sheet rows start.row+1 .. min(end.row,
\* row_count-1) restricted to all the columns start.column .. min(end.column,
\* column_count-1).
C5_DataRowsAsStated ==
    (SliceDone /\ AtLeastTwoRows) =>
        /\ result.ok
        /\ result.frame.rows = RowsOver(RectCols)

\* C5, amended: the data rows are the sheet rows start.row+1 .. min(end.row,
\* row_count-1), in order, restricted to those columns of start.column ..
\* min(end.column, column_count-1) whose header name no earlier column of the
\* range has; an omitted or empty end cell is (row_count-1, column_count-1),
\* so an end cell at or beyond the last row and column gives the same result.
C5_DataRows ==
    (SliceDone /\ AtLeastTwoRows) =>
        /\ result.ok
        /\ result.frame.rows = RowsOver(KeptCols)
        /\ Len(result.frame.rows) = LastRow - FirstRow
        /\ (EndOmitted => LastRow = NRows(df) - 1 /\ LastCol = NCols(df) - 1)
        /\ (EndResolved.row >= NRows(df) - 1 /\ EndResolved.col >= NCols(df) - 1)
              => result = prepare_table_slice(df, start_cell, None)

C5_Witness ==
    /\ SliceDone /\ AtLeastTwoRows
    /\ df = ExampleSheet
    /\ start_cell = RefB1
    /\ end_cell = RefZ99
    /\ result.ok
    /\ Len(result.frame.rows) = 4
    /\ result.frame.rows[1] = <<CellOf("addr", 2, 2), CellOf("addr", 2, 3)>>
    /\ result.frame.rows[4] = <<CellOf("addr", 5, 2), CellOf("addr", 5, 3)>>

\* C6: when the clamped rectangle is the start row alone the slicer returns
\* the empty table, no columns and no rows, whatever the header holds; B1:B1
\* is empty, A1 with no end on the 5x3 sheet gives 4 rows under ID, Name, Amount.
C6_HeaderOnlyIsEmpty ==
    /\ (SliceDone /\ StartInside /\ EndResolved.ok /\ LastRow = FirstRow)
          => /\ result.ok
             /\ result.frame = EmptyFrame
             /\ result.frame.columns = <<>> /\ result.frame.rows = <<>>
    /\ (SliceDone /\ df = ExampleSheet /\ start_cell = RefA1 /\ EndOmitted)
          => /\ result.ok
             /\ Len(result.frame.rows) = 4
             /\ result.frame.columns =
                   <<<<"I","D">>, <<"N","a","m","e">>, <<"A","m","o","u","n","t">>>>

C6_Witness ==
    /\ SliceDone
    /\ df = ExampleSheet
    /\ start_cell = RefB1
    /\ end_cell = RefB1
    /\ result = [ok |-> TRUE, frame |-> EmptyFrame]

----------------------------------------------------------------------------
(* Properties of the resolver.                                             *)

\* bijective base-26 letters of the 1-based column number n (A=1 .. Z=26, AA=27)
RECURSIVE ColumnLetters(_)
ColumnLetters(n) ==
    IF n <= 0 THEN <<>>
    ELSE Append(ColumnLetters((n - 1) \div 26), UpperChars[((n - 1) % 26) + 1])

\* the reference string of a zero-based (row, col)
Reencode(row, col) == ColumnLetters(col + 1) \o IntToStr(row + 1)

IsLettersDigits(s) == CellRefMatch(s) # 0

Accepted == op = "cell_to_indices" /\ pc = "done" /\ result.ok

RefBC12 == <<"B","C","1","2">>
RefA01 == <<"A","0","1">>

\* C3 as stated: every accepted letters+digits reference re-encodes to its
\* upper-cased self.
C3_RoundTripAsStated ==
    (Accepted /\ IsLettersDigits(cell_ref))
        => Reencode(result.row, result.col) = Upper(cell_ref)

\* C3, amended: an accepted reference re-encodes to its upper-cased letters
\* followed by its row digits without leading zeros (surrounding whitespace
\* dropped); this is the upper-cased input exactly when the input is letters
\* then digits with no leading zero.  A1 -> (0,0), B5 -> (4,1), BC12 -> (11,54).
C3_RoundTrip ==
    Accepted =>
        LET s == Strip(cell_ref)
            k == CellRefMatch(s)
            back == Reencode(result.row, result.col)
        IN /\ k > 0
           /\ result.row >= 0 /\ result.col >= 0
           /\ back = Upper(SubSeq(s, 1, k)) \o LStrip(SubSeq(s, k + 1, Len(s)), {"0"})
           /\ (back = Upper(cell_ref)) <=> (IsLettersDigits(cell_ref) /\ s[k + 1] # "0")
           /\ (cell_ref = <<"A","1">> => result.row = 0 /\ result.col = 0)
           /\ (cell_ref = <<"B","5">> => result.row = 4 /\ result.col = 1)
           /\ (cell_ref = RefBC12 => result.row = 11 /\ result.col = 54)

C3_Witness ==
    /\ Accepted
    /\ cell_ref = RefA01
    /\ result.row = 0 /\ result.col = 0
    /\ Reencode(result.row, result.col) = <<"A","1">>

----------------------------------------------------------------------------
(* Properties of the sanitiser.                                            *)

NameQ1 == <<"Q","1"," ","R","e","p","o","r","t","/","2","0","2","4">>
NameQ1Safe == <<"Q","1","_","R","e","p","o","r","t","_","2","0","2","4">>
NameStars == <<"*","*","*">>
NameSheet == <<"s","h","e","e","t">>

\* the contract in the words of the claim: map every character, trim "_",
\* fall back to "sheet"
SanitiseContract(n) ==
    LET mapped  == [i \in DOMAIN n |->
                       IF IsAlnum(n[i]) \/ n[i] = "-" \/ n[i] = "_" THEN n[i] ELSE "_"]
        trimmed == StripChars(mapped, {"_"})
    IN IF trimmed = <<>> THEN NameSheet ELSE trimmed

Sanitised == op = "sanitise_sheet_name" /\ pc = "done"

\* C10: sanitise_sheet_name always returns a non-empty string of alphanumerics,
\* "-" and "_" that neither starts nor ends with "_": the characters mapped,
\* "_" trimmed, "sheet" when nothing is left.
C10_Sanitise ==
    Sanitised =>
        /\ result \in Seq(STRING)
        /\ Len(result) >= 1
        /\ \A i \in DOMAIN result : IsAlnum(result[i]) \/ result[i] \in {"-", "_"}
        /\ result[1] # "_" /\ result[Len(result)] # "_"
        /\ result = SanitiseContract(name)
        /\ (name = NameQ1 => result = NameQ1Safe)
        /\ (name = NameStars => result = NameSheet)

C10_Witness ==
    /\ Sanitised
    /\ name = NameQ1
    /\ result = NameQ1Safe

----------------------------------------------------------------------------
(* Properties of split_excel.                                              *)

IsFrame(f) == "rows" \in DOMAIN f
LoopEntered == "at" \in DOMAIN gen

SplitDone == op = "split_excel" /\ pc = "done"
SplitComplete == SplitDone /\ dialog.title = "Split complete"

\* the selected formats in the order they are written
SelectedInOrder ==
    Select(FormatOrder, [i \in DOMAIN FormatOrder |-> FormatOrder[i] \in selected_formats])

\* {stem}_{sanitized_sheet}_part{i:03d}.{ext}, for i < 1000
ExpectedPath(i, format) ==
    Stem \o <<"_">> \o SanitiseContract(sheet_name) \o <<"_","p","a","r","t">>
        \o (IF i < 10 THEN <<"0","0">> ELSE IF i < 100 THEN <<"0">> ELSE <<>>)
        \o IntToStr(i) \o <<".">> \o ExtensionOf(format)

PathLedger1 ==
    <<"b","o","o","k","_","Q","1","_","R","e","p","o","r","t","_","2","0","2","4",
      "_","p","a","r","t","0","0","1",".","x","l","s","x">>

\* C7: a split in which no encoder fails, over R >= 1 data rows with K >= 1 and
\* a non-empty set E of formats, writes ceil(R/K) * |E| files, one for each
\* chunk 1..ceil(R/K) and each format, named {stem}_{sheet}_part{i:03d}.{ext},
\* and reports ceil(R/K); 5 data rows and K = 2 give chunks of 2, 2 and 1 rows.
C7_SplitArtifacts ==
    /\ (SplitDone /\ LoopEntered /\ dialog.message # "encoder") => SplitComplete
    /\ SplitComplete =>
          LET R == NRows(df)
              K == rows_per_chunk
              E == SelectedInOrder
              n == CeilDiv(R, K)
          IN /\ R >= 1 /\ K >= 1 /\ selected_formats # {}
             /\ dialog.count = n
             /\ Len(files) = n * Cardinality(selected_formats)
             /\ \A i \in 1..n : \A j \in DOMAIN E :
                   LET file == files[(i - 1) * Len(E) + j]
                   IN /\ file.path = ExpectedPath(i, E[j])
                      /\ file.table.columns = df.columns
                      /\ file.table.rows = SubSeq(df.rows, (i - 1) * K + 1, Min(i * K, R))
             /\ \A a, b \in DOMAIN files : files[a].path = files[b].path => a = b
             /\ (raw_df = LedgerSheet /\ start_cell = RefA1 /\ K = 2) =>
                   /\ n = 3
                   /\ \A j \in DOMAIN E :
                         /\ NRows(files[j].table) = 2
                         /\ NRows(files[Len(E) + j].table) = 2
                         /\ NRows(files[2 * Len(E) + j].table) = 1

C7_Witness ==
    /\ SplitComplete
    /\ raw_df = LedgerSheet /\ start_cell = RefA1 /\ rows_per_chunk = 2
    /\ selected_formats = {"xlsx", "csv", "json", "ods"}
    /\ dialog.count = 3
    /\ Len(files) = 12
    /\ files[1].path = PathLedger1
    /\ NRows(files[12].table) = 1

\* the data rows the range resolves to: the slicer's result on the sheet read
SlicedRange ==
    prepare_table_slice(raw_df, start_cell, IF end_cell = <<>> THEN None ELSE end_cell)

\* the sheet was read and sliced without error, and no data row came out
NoDataRows ==
    /\ op = "split_excel" /\ pc \in {"loop", "write", "done"}
    /\ IsFrame(raw_df)
    /\ SlicedRange.ok
    /\ NRows(SlicedRange.frame) = 0

\* C8: when the range holds no data row (a header-only range included)
\* split_excel stops with the "Empty table" message before any chunking:
\* nothing is written and no count is reported.
C8_EmptyResult ==
    NoDataRows =>
        /\ pc = "done"
        /\ dialog = ShowInfo("Empty table", 0)
        /\ ~LoopEntered /\ yielded = <<>>
        /\ files = <<>>
        /\ chunks_written = 0

C8_Witness ==
    /\ NoDataRows
    /\ raw_df = ExampleSheet
    /\ start_cell = RefA1 /\ end_cell = RefA1
    /\ pc = "done"
    /\ dialog.title = "Empty table"
    /\ files = <<>>

----------------------------------------------------------------------------
(* Properties of build_xlsx.                                               *)

BuildLooping == op = "build_xlsx" /\ LoopEntered

----------------------------------------------------------------------------
(* Properties of the slicer's range check.                                 *)

\* the end cell as the claim resolves it: the given reference, or the last
\* row and column of the sheet when it is omitted
EndAsStated ==
    IF EndOmitted THEN [ok |-> TRUE, row |-> NRows(df) - 1, col |-> NCols(df) - 1]
    ELSE cell_to_indices(end_cell)

\* both references are valid and the resolved end is above or left of start
ResolvedEndBeforeStart ==
    /\ cell_to_indices(start_cell).ok
    /\ EndAsStated.ok
    /\ (EndAsStated.row < cell_to_indices(start_cell).row
          \/ EndAsStated.col < cell_to_indices(start_cell).col)

\* C11 as stated: whenever the resolved end (given, or last row and column
\* when omitted) is above or left of start, the slicer raises "End cell must
\* be below and to the right of the start cell".
C11_RangeCheckAsStated ==
    (SliceDone /\ ResolvedEndBeforeStart) => result = Raise(MsgEndBeforeStart)

\* C11, amended: a given end cell above or left of start raises "End cell must
\* be below and to the right of the start cell", also when start is outside
\* the sheet (the range check comes first); with the end cell omitted there is
\* no range check, and a resolved end above or left of start, which is then a
\* start outside the sheet, raises "Start cell lies outside the populated
\* area of the sheet".
C11_RangeCheck ==
    /\ (SliceDone /\ ~EndOmitted /\ ResolvedEndBeforeStart)
          => result = Raise(MsgEndBeforeStart)
    /\ (SliceDone /\ EndOmitted /\ ResolvedEndBeforeStart)
          => /\ StartOutside(cell_to_indices(start_cell), df)
             /\ result = Raise(MsgOutside)

C11_Witness ==
    /\ SliceDone
    /\ df = ExampleSheet
    /\ start_cell = RefZ99
    /\ end_cell = RefA1
    /\ ResolvedEndBeforeStart
    /\ result = Raise(MsgEndBeforeStart)

----------------------------------------------------------------------------
(* Properties of the header names.                                         *)

RefA2 == <<"A","2">>
NameColumn2 == <<"C","o","l","u","m","n"," ","2">>

\* the name stated for the column at the 1-based position p of the rectangle:
\* the trimmed text of its first-row cell, or "Column p" when that text is
\* empty or the cell is missing
StatedName(cell, p) ==
    LET trimmed == IF cell.kind = "nan" THEN <<>> ELSE Strip(cell.text)
    IN IF trimmed # <<>> THEN trimmed
       ELSE <<"C","o","l","u","m","n"," ">> \o IntToStr(p)

\* the stated names of the columns FirstCol .. LastCol, in order
StatedNames ==
    LET header == df.rows[FirstRow + 1]
        first == FirstCol
    IN [p \in 1..(LastCol - first + 1) |-> StatedName(header[first + p], p)]

\* the position in names of the first occurrence of n
FirstOccurrence(names, n) ==
    CHOOSE i \in DOMAIN names :
        /\ names[i] = n
        /\ \A j \in 1..(i - 1) : names[j] # n

\* out holds every name of names once, in the order of first occurrences
FirstOccurrences(names, out) ==
    /\ {out[k] : k \in DOMAIN out} = {names[i] : i \in DOMAIN names}
    /\ \A k, l \in DOMAIN out : k # l => out[k] # out[l]
    /\ \A k, l \in DOMAIN out :
          k < l => FirstOccurrence(names, out[k]) < FirstOccurrence(names, out[l])

\* the sheet column of the first occurrence of each name of out
FirstColumns(names, out) ==
    [k \in DOMAIN out |-> RectCols[FirstOccurrence(names, out[k])]]

\* the n sheet rows below the 0-based row first, restricted to the columns cols
RowsAt(first, n, cols) ==
    [r \in 1..n |-> [i \in DOMAIN cols |-> CellAt(first + r, cols[i])]]

\* C12: the output columns are the stated names (trimmed first-row text, or
\* "Column p" for an empty or missing cell), each once, in the order of their
\* first occurrences; every data row holds exactly the cells of the first
\* column of each name, so a later column of a repeated name is dropped whole.
C12_HeaderNames ==
    (SliceDone /\ AtLeastTwoRows) =>
        /\ result.ok
        /\ FirstOccurrences(StatedNames \o <<>>, result.frame.columns)
        /\ result.frame.rows =
              RowsAt(FirstRow, LastRow - FirstRow,
                     FirstColumns(StatedNames \o <<>>, result.frame.columns) \o <<>>)

\* a literal "Column 2" in the first column meets the name generated for the
\* missing header of the second: one column is left, the literal one
C12_Witness ==
    /\ SliceDone /\ AtLeastTwoRows
    /\ start_cell = RefA2
    /\ LastCol = 1
    /\ CellAt(FirstRow, 0) = Text(NameColumn2)
    /\ CellAt(FirstRow, 1) = NaN
    /\ result.ok
    /\ result.frame.columns = <<NameColumn2>>
    /\ result.frame.rows[1] = <<CellAt(FirstRow + 1, 0)>>

----------------------------------------------------------------------------
(* Properties of a failing write in split_excel.                           *)

\* an encoder has failed in this invocation and its cause has been shown
EncoderFailed ==
    op = "split_excel" /\ dialog.kind = "error" /\ dialog.message = "encoder"

StatedOrder == <<"xlsx", "csv", "json", "ods">>

\* the selected encodings among the first n of the stated order, in that order
SelectedAmongFirst(n) ==
    Select(SubSeq(StatedOrder, 1, n),
           [j \in 1..n |-> StatedOrder[j] \in selected_formats])

\* rows of chunk c of the sliced table
ChunkRows(c) ==
    SubSeq(df.rows, (c - 1) * rows_per_chunk + 1, Min(c * rows_per_chunk, NRows(df)))

\* C13: once the write of one encoding of chunk i has failed the invocation
\* is over (no step of it can follow, so nothing more is written), an error
\* dialog carries the cause and no "Split complete" count is reported, and the
\* files written are exactly every selected encoding of chunks 1..i-1 followed
\* by the selected encodings of chunk i that precede the failing one in the
\* order xlsx, csv, json, ods.
C13_WriteFailure ==
    EncoderFailed =>
        LET i == idx
            E == SelectedAmongFirst(Len(StatedOrder))
            before == SelectedAmongFirst(fmt - 1)
        IN /\ pc = "done"
           /\ ~ENABLED NextSplit
           /\ dialog.title \in {"Missing dependency", "Split error"}
           /\ dialog.title # "Split complete" /\ dialog.count = 0
           /\ i >= 1 /\ fmt \in DOMAIN StatedOrder
           /\ StatedOrder[fmt] \in selected_formats
           /\ Len(files) = (i - 1) * Len(E) + Len(before)
           /\ \A c \in 1..(i - 1) : \A j \in DOMAIN E :
                 LET file == files[(c - 1) * Len(E) + j]
                 IN /\ file.path = ExpectedPath(c, E[j])
                    /\ file.table.columns = df.columns
                    /\ file.table.rows = ChunkRows(c)
           /\ \A j \in DOMAIN before :
                 LET file == files[(i - 1) * Len(E) + j]
                 IN /\ file.path = ExpectedPath(i, before[j])
                    /\ file.table.columns = df.columns
                    /\ file.table.rows = ChunkRows(i)

\* the ods write of the second chunk fails for a missing dependency after
\* four files of chunk 1 and three of chunk 2
C13_Witness ==
    /\ EncoderFailed /\ pc = "done"
    /\ raw_df = LedgerSheet /\ start_cell = RefA1 /\ rows_per_chunk = 2
    /\ selected_formats = {"xlsx", "csv", "json", "ods"}
    /\ idx = 2 /\ FormatOrder[fmt] = "ods"
    /\ dialog.title = "Missing dependency"
    /\ Len(files) = 7
    /\ files[1].path = PathLedger1
    /\ NRows(files[7].table) = 2

====
